---------------------------- MODULE Spec2Model ----------------------------
(***************************************************************************)
(* drupalValidator: rule composition and error-state reconciliation.       *)
(*                                                                         *)
(* Layer 5 (drupalValidatorBasics.js) is modelled as operators over        *)
(* strings, a string being a sequence of one-character strings.  Layer 4   *)
(* (setErrorState, recoverErrorState, otherErrorsExist) is modelled as     *)
(* operators over a record d describing the DOM of one form.  Layer 3      *)
(* (bindValidationError, bindFieldValidationArray, runValidationRuleset    *)
(* and the validate*Field functions) and layer 2 (the handle*Field         *)
(* functions of exampleValidator.js) return a record [dom, ret]: the DOM   *)
(* they leave and the value they return.                                   *)
(*                                                                         *)
(* The value a field holds when a function reads it with .val() is an      *)
(* input of the call.                                                      *)
(*                                                                         *)
(* Specifications: Spec (layers 3 and 4 called in any order),              *)
(* SpecErrorState (layer 4 alone), SpecHandlers (the blur handlers, each   *)
(* as one call), SpecSteps (the blur handlers statement by statement),     *)
(* SpecRuleset (the rule evaluator alone), SpecPredicates (layer 5 alone), *)
(* SpecEvents (attach and the focus and blur events).                      *)
(***************************************************************************)
EXTENDS Integers, Sequences, FiniteSets, TLC

\* Number of input fields of the form.
NumFields == 2

\* Longest rule list handed to runValidationRuleset.
MaxRules == 4

Fields == 1..NumFields

\* One container per field is enough to give every field its own parent.
Containers == 1..NumFields

(***************************************************************************)
(* Characters and strings.                                                 *)
(***************************************************************************)
Digits == {"0", "1", "2", "3", "4", "5", "6", "7", "8", "9"}

LowerCase == {"a", "b", "c", "d", "e", "f", "g", "h", "i", "j", "k", "l", "m",
              "n", "o", "p", "q", "r", "s", "t", "u", "v", "w", "x", "y", "z"}

UpperCase == {"A", "B", "C", "D", "E", "F", "G", "H", "I", "J", "K", "L", "M",
              "N", "O", "P", "Q", "R", "S", "T", "U", "V", "W", "X", "Y", "Z"}

AlphaNumeric == Digits \cup LowerCase \cup UpperCase

\* The character class of the local part of emailRegex; "bq" stands for the
\* backquote character, which a TLA+ string cannot hold.
EmailLocalChars ==
  AlphaNumeric \cup {".", "!", "#", "$", "%", "&", "'", "*", "+", "/", "=",
                     "?", "^", "_", "bq", "{", "|", "}", "~", "-"}

\* value.replace(/-/g, "")
RECURSIVE StripDashes(_)
StripDashes(value) ==
  IF value = <<>> THEN <<>>
  ELSE IF Head(value) = "-" THEN StripDashes(Tail(value))
       ELSE <<Head(value)>> \o StripDashes(Tail(value))

\* s matches ^\d{n}$
AllDigits(s, n) == Len(s) = n /\ \A i \in 1..Len(s) : s[i] \in Digits

\* s matches ^\d{a}-?\d{b}-?\d{c}$
DashedDigits(s, a, b, c) ==
  \E d1 \in {0, 1}, d2 \in {0, 1} :
     /\ Len(s) = a + b + c + d1 + d2
     /\ AllDigits(SubSeq(s, 1, a), a)
     /\ d1 = 1 => s[a + 1] = "-"
     /\ AllDigits(SubSeq(s, a + d1 + 1, a + d1 + b), b)
     /\ d2 = 1 => s[a + d1 + b + 1] = "-"
     /\ AllDigits(SubSeq(s, a + d1 + b + d2 + 1, Len(s)), c)

\* haystack.indexOf(needle) !== -1
Contains(haystack, needle) ==
  \E i \in 1..(Len(haystack) + 1) :
     /\ i + Len(needle) - 1 <= Len(haystack)
     /\ SubSeq(haystack, i, i + Len(needle) - 1) = needle

(***************************************************************************)
(* Layer 5: raw validation functions.                                      *)
(***************************************************************************)
\* lengthValid without the exemption of the blank value.
lengthValid_NoBlankExemption(value, min, max, fail_on_blank) ==
  IF Len(value) < min \/ Len(value) > max THEN FALSE
  ELSE TRUE

lengthValid(value, min, max, fail_on_blank) ==
  IF ~fail_on_blank /\ Len(value) = 0 THEN TRUE
  ELSE IF Len(value) < min \/ Len(value) > max THEN FALSE
  ELSE TRUE

fieldNotEmpty(value) == lengthValid(value, 1, 999999, TRUE)

\* all_values: the values of the fields of all_fields other than field.
allFieldsEmpty(all_values) ==
  ~ \E i \in 1..Len(all_values) : fieldNotEmpty(all_values[i]) = TRUE

NotEmptyIfAnyFieldsNotEmpty(value, all_values) ==
  IF allFieldsEmpty(all_values) = FALSE /\ fieldNotEmpty(value) = FALSE
  THEN FALSE
  ELSE TRUE

fieldsMatch(value_1, value_2, fail_on_blank) ==
  IF fail_on_blank = FALSE /\ (Len(value_1) = 0 \/ Len(value_2) = 0) THEN TRUE
  ELSE IF value_1 # value_2 THEN FALSE
  ELSE TRUE

ssnValid(value, error_on_blank) ==
  LET count == Len(value) IN
  IF count = 0 /\ error_on_blank = FALSE THEN TRUE
  ELSE IF (count # 0 /\ count < 9) \/ ~DashedDigits(value, 3, 2, 4) THEN FALSE
  ELSE TRUE

\* One label of the domain part of emailRegex:
\* [a-zA-Z0-9](?:[a-zA-Z0-9-]{0,61}[a-zA-Z0-9])?
EmailLabel(s) ==
  /\ Len(s) >= 1
  /\ Len(s) <= 63
  /\ s[1] \in AlphaNumeric
  /\ s[Len(s)] \in AlphaNumeric
  /\ \A i \in 1..Len(s) : s[i] \in AlphaNumeric \cup {"-"}

\* label(?:\.label)*$ : every dot-separated piece of s is a label.
EmailDomain(s) ==
  LET dots == {0, Len(s) + 1} \cup {i \in 1..Len(s) : s[i] = "."} IN
  \A i \in dots : \A j \in dots :
     (i < j /\ ~ \E k \in dots : i < k /\ k < j)
        => EmailLabel(SubSeq(s, i + 1, j - 1))

emailValid(value, error_on_blank) ==
  IF Len(value) = 0 /\ error_on_blank = FALSE THEN TRUE
  ELSE \E at \in 2..Len(value) :
          /\ value[at] = "@"
          /\ value[at - 1] \in EmailLocalChars
          /\ EmailDomain(SubSeq(value, at + 1, Len(value)))

\* A firstChar with which new RegExp("^" + firstChar + "+$") is not a
\* regular expression; the constructor then raises a SyntaxError.
RegExpSyntaxErrorChars == {"(", ")", "[", "*", "+", "?", "|", "^", "$"}

\* phoneValid raises instead of returning.
phoneValidThrows(value, error_on_blank) ==
  /\ ~ (Len(value) = 0 /\ error_on_blank = FALSE)
  /\ Len(value) > 0
  /\ value[1] \in RegExpSyntaxErrorChars

\* phoneValid without rule 3.
phoneValid_NoRuleThree(value, error_on_blank) ==
  IF Len(value) = 0 /\ error_on_blank = FALSE THEN TRUE
  ELSE LET stripped == StripDashes(value)
           ruleOne == DashedDigits(value, 3, 3, 4)
           ruleTwo == Len(stripped) = 10
       IN ruleOne /\ ruleTwo

\* The value phoneValid returns when it returns.
phoneValid(value, error_on_blank) ==
  IF Len(value) = 0 /\ error_on_blank = FALSE THEN TRUE
  ELSE LET stripped == StripDashes(value)
           ruleOne == DashedDigits(value, 3, 3, 4)
           ruleTwo == Len(stripped) = 10
           \* stripped.replace(new RegExp("^" + firstChar + "+$"), "")
           \* is empty exactly when stripped is empty or is a run of firstChar.
           ruleThere == ~ (\A i \in 1..Len(stripped) : stripped[i] = value[1])
       IN ruleOne /\ ruleTwo /\ ruleThere

\* doesNotContainValue looking for the haystack in the needle.
doesNotContainValue_Reversed(needle, haystack, error_on_blank) ==
  IF Len(needle) = 0 /\ ~error_on_blank THEN TRUE
  ELSE IF ~Contains(needle, haystack) THEN TRUE
  ELSE FALSE

doesNotContainValue(needle, haystack, error_on_blank) ==
  IF Len(needle) = 0 /\ ~error_on_blank THEN TRUE
  ELSE IF ~Contains(haystack, needle) THEN TRUE
  ELSE FALSE

containsUppercase(value) == \E i \in 1..Len(value) : value[i] \in UpperCase

containsLowercase(value) == \E i \in 1..Len(value) : value[i] \in LowerCase

containsNumber(value) == \E i \in 1..Len(value) : value[i] \in Digits

containsOnlyAlphaNumeric(value) ==
  ~ \E i \in 1..Len(value) : value[i] \notin AlphaNumeric

containsOnlyNumeric(value) ==
  ~ \E i \in 1..Len(value) : value[i] \notin Digits

containsLowerAndUppercase(value) ==
  containsUppercase(value) /\ containsLowercase(value)

(***************************************************************************)
(* Layer 3.B: the rule evaluator.                                          *)
(*                                                                         *)
(* runValidationRuleset returns a boolean or an array; the result is the   *)
(* record [type, bool, array], of which bool is meaningful when type is    *)
(* "boolean" and array when type is "array".                               *)
(***************************************************************************)
BooleanResult(b) == [type |-> "boolean", bool |-> b, array |-> <<>>]

ArrayResult(a) == [type |-> "array", bool |-> FALSE, array |-> a]

\* RulesetLoop flagging a failure only in error-returning mode.
RECURSIVE RulesetLoop_FlagInverted(_, _, _, _, _, _)
RulesetLoop_FlagInverted(validation_callbacks, i, error_array, errors, return_errors, halt_on_error) ==
  IF i > Len(validation_callbacks)
  THEN IF return_errors = TRUE THEN ArrayResult(error_array)
       ELSE BooleanResult(~errors)
  ELSE LET my_result == validation_callbacks[i] IN
       IF halt_on_error = TRUE /\ my_result = FALSE
       THEN BooleanResult(FALSE)
       ELSE RulesetLoop_FlagInverted(
              validation_callbacks, i + 1, Append(error_array, my_result),
              errors \/ (return_errors = TRUE /\ my_result = FALSE),
              return_errors, halt_on_error)

\* The for loop of runValidationRuleset from index i on, and the returns
\* that follow it.
RECURSIVE RulesetLoop(_, _, _, _, _, _)
RulesetLoop(validation_callbacks, i, error_array, errors, return_errors, halt_on_error) ==
  IF i > Len(validation_callbacks)
  THEN IF return_errors = TRUE THEN ArrayResult(error_array)
       ELSE BooleanResult(~errors)
  ELSE LET my_result == validation_callbacks[i] IN
       IF halt_on_error = TRUE /\ my_result = FALSE
       THEN BooleanResult(FALSE)
       ELSE RulesetLoop(validation_callbacks, i + 1,
                        Append(error_array, my_result),
                        errors \/ (return_errors # TRUE /\ my_result = FALSE),
                        return_errors, halt_on_error)

\* runValidationRuleset with a loop that starts at the second callback.
runValidationRuleset_SkipsFirst(validation_callbacks, return_errors, halt_on_error) ==
  RulesetLoop(validation_callbacks, 2, <<>>, FALSE, return_errors,
              halt_on_error)

runValidationRuleset(validation_callbacks, return_errors, halt_on_error) ==
  RulesetLoop(validation_callbacks, 1, <<>>, FALSE, return_errors,
              halt_on_error)

(***************************************************************************)
(* Layer 4: error state functions on the DOM of one form.                  *)
(*                                                                         *)
(* d.container[f]  the parent of the .form-item wrapper of field f; the    *)
(*                 wrappers of two fields are siblings iff they have the   *)
(*                 same container                                          *)
(* d.inputErr[f]   the input of field f has class error                    *)
(* d.labelErr[f]   the .form-item-label of field f has class error         *)
(* d.formErr       the form has class form-error-state                     *)
(* d.msgs[c]       the .messages nodes that are children of container c,   *)
(*                 each [owner, text]: the field after whose wrapper the   *)
(*                 node was inserted, and its html                         *)
(***************************************************************************)

\* jQuery(element).closest('.form-item').siblings('.messages'), as the
\* container whose .messages children these are.
ErrorMessageSiblings(d, element) == d.container[element]

\* html(message) that also adds one more node with the message.
SetHtml_AddsNode(nodes, message) ==
  IF nodes = <<>> THEN <<>>
  ELSE Append([i \in 1..Len(nodes) |-> [nodes[i] EXCEPT !.text = message]],
              [owner |-> nodes[1].owner, text |-> message])

\* jQuery(nodes).html(message)
SetHtml(nodes, message) ==
  [i \in 1..Len(nodes) |-> [nodes[i] EXCEPT !.text = message]]

\* otherErrorsExist counting the passed element too.
otherErrorsExist_CountsElement(d, element, wrapped) ==
  LET error_elements == {f \in Fields : d.inputErr[f]}
      count == Cardinality(error_elements)
  IN IF count > 0 THEN TRUE ELSE FALSE

\* otherErrorsExist testing count >= 0.
otherErrorsExist_ZeroCounts(d, element, wrapped) ==
  LET error_elements == {f \in Fields : d.inputErr[f]}
      count == Cardinality({value \in error_elements :
                              wrapped \/ value # element})
  IN IF count >= 0 THEN TRUE ELSE FALSE

\* wrapped: element is a jQuery object rather than a DOM element, so that
\* no DOM element is equal to it.
otherErrorsExist(d, element, wrapped) ==
  LET error_elements == {f \in Fields : d.inputErr[f]}
      count == Cardinality({value \in error_elements :
                              wrapped \/ value # element})
  IN IF count > 0 THEN TRUE ELSE FALSE

\* setErrorState leaving the text of an existing .messages node as it is.
setErrorState_KeepsOldMessage(d, element, message) ==
  LET c == ErrorMessageSiblings(d, element)
      element_error_message == d.msgs[c]
  IN [d EXCEPT !.inputErr[element] = TRUE,
               !.labelErr[element] = TRUE,
               !.formErr = TRUE,
               !.msgs[c] = IF Len(element_error_message) <= 0
                           THEN <<[owner |-> element, text |-> message]>>
                           ELSE element_error_message]

setErrorState(d, element, message) ==
  LET c == ErrorMessageSiblings(d, element)
      element_error_message == d.msgs[c]
  IN [d EXCEPT !.inputErr[element] = TRUE,
               !.labelErr[element] = TRUE,
               !.formErr = TRUE,
               !.msgs[c] = IF Len(element_error_message) <= 0
                           THEN <<[owner |-> element, text |-> message]>>
                           ELSE SetHtml(element_error_message, message)]

\* recoverErrorState removing the form class without asking
\* otherErrorsExist.
recoverErrorState_NoScopeCheck(d, element, wrapped) ==
  LET c == ErrorMessageSiblings(d, element)
      d1 == [d EXCEPT !.inputErr[element] = FALSE,
                      !.labelErr[element] = FALSE,
                      !.formErr = FALSE]
  IN [d1 EXCEPT !.msgs[c] = SetHtml(d1.msgs[c], "")]

recoverErrorState(d, element, wrapped) ==
  LET c == ErrorMessageSiblings(d, element)
      d1 == [d EXCEPT !.inputErr[element] = FALSE,
                      !.labelErr[element] = FALSE]
      d2 == IF otherErrorsExist(d1, element, wrapped) = FALSE
            THEN [d1 EXCEPT !.formErr = FALSE]
            ELSE d1
  IN [d2 EXCEPT !.msgs[c] = SetHtml(d2.msgs[c], "")]

(***************************************************************************)
(* Layer 3: validation bound to error state behaviour.                     *)
(***************************************************************************)
\* bindValidationError returning false without setting the error state.
bindValidationError_NoSet(d, field, callback, error_message) ==
  IF callback = FALSE
  THEN [dom |-> d, ret |-> FALSE]
  ELSE [dom |-> d, ret |-> TRUE]

bindValidationError(d, field, callback, error_message) ==
  IF callback = FALSE
  THEN [dom |-> setErrorState(d, field, error_message), ret |-> FALSE]
  ELSE [dom |-> d, ret |-> TRUE]

\* The report_error_message argument: a message string, true or false.
MessageString(m) == [type |-> "string", str |-> m, bool |-> FALSE]

BooleanFlag(b) == [type |-> "boolean", str |-> "", bool |-> b]

\* bindFieldValidationArray returning true without recovering the field.
bindFieldValidationArray_NoRecover(d, field, validaton_callbacks, report_error_message) ==
  LET error_message == IF report_error_message.type = "string"
                       THEN report_error_message.str
                       ELSE ""
      report == IF report_error_message.type = "string" THEN FALSE
                ELSE IF report_error_message.bool # FALSE THEN TRUE
                ELSE FALSE
      results == runValidationRuleset(validaton_callbacks, FALSE, TRUE)
  IN IF report = FALSE /\ results = BooleanResult(TRUE)
     THEN [dom |-> d, ret |-> TRUE]
     ELSE IF results = BooleanResult(FALSE) /\ report = FALSE
          THEN [dom |-> setErrorState(d, field, error_message), ret |-> FALSE]
          ELSE [dom |-> d, ret |-> FALSE]

bindFieldValidationArray(d, field, validaton_callbacks, report_error_message) ==
  LET error_message == IF report_error_message.type = "string"
                       THEN report_error_message.str
                       ELSE ""
      report == IF report_error_message.type = "string" THEN FALSE
                ELSE IF report_error_message.bool # FALSE THEN TRUE
                ELSE FALSE
      results == runValidationRuleset(validaton_callbacks, FALSE, TRUE)
  IN IF report = FALSE /\ results = BooleanResult(TRUE)
     THEN [dom |-> recoverErrorState(d, field, FALSE), ret |-> TRUE]
     ELSE IF results = BooleanResult(FALSE) /\ report = FALSE
          THEN [dom |-> setErrorState(d, field, error_message), ret |-> FALSE]
          ELSE [dom |-> d, ret |-> FALSE]

validateSSNField(d, input_element, value, error_message, error_on_blank) ==
  bindValidationError(d, input_element, ssnValid(value, error_on_blank),
                      error_message)

validatePhoneField(d, input_element, value, error_message, error_on_blank) ==
  bindValidationError(d, input_element, phoneValid(value, error_on_blank),
                      error_message)

validateEmailField(d, input_element, value, error_message, error_on_blank) ==
  bindValidationError(d, input_element, emailValid(value, error_on_blank),
                      error_message)

ZipRules(value, error_on_blank) ==
  << containsOnlyNumeric(value),
     lengthValid(value, 5, 5, error_on_blank) >>

validateZipField(d, input_element, value, error_message, error_on_blank) ==
  bindFieldValidationArray(d, input_element, ZipRules(value, error_on_blank),
                           MessageString(error_message))

PasswordRules(value, user_id_value) ==
  << lengthValid(value, 8, 128, TRUE),
     containsLowerAndUppercase(value),
     containsNumber(value),
     doesNotContainValue(user_id_value, value, FALSE) >>

validatePasswordField(d, input_element, value, user_id_value, error_message) ==
  bindFieldValidationArray(d, input_element,
                           PasswordRules(value, user_id_value),
                           MessageString(error_message))

SecurityRules(value, linked_value, error_on_blank) ==
  << lengthValid(value, 4, 512, error_on_blank),
     doesNotContainValue(linked_value, value, error_on_blank) >>

validateSecurityField(d, input_element, value, linked_value, error_message, error_on_blank) ==
  bindFieldValidationArray(d, input_element,
                           SecurityRules(value, linked_value, error_on_blank),
                           MessageString(error_message))

validateConfirmField(d, primary_value, confirm_field, confirm_value, error_on_blank, error_message) ==
  bindValidationError(d, confirm_field,
                      fieldsMatch(primary_value, confirm_value,
                                  error_on_blank),
                      error_message)

validateRequiredField(d, field, value, error_message) ==
  bindValidationError(d, field, fieldNotEmpty(value), error_message)

validateRequiredOneForAllField(d, field, value, all_values, error_message) ==
  bindValidationError(d, field,
                      NotEmptyIfAnyFieldsNotEmpty(value, all_values),
                      error_message)

CompanyIdRules(value, error_on_blank) ==
  << lengthValid(value, 4, 4, error_on_blank),
     containsOnlyAlphaNumeric(value) >>

validateCompanyIdField(d, input_element, value, error_message, error_on_blank) ==
  bindFieldValidationArray(d, input_element,
                           CompanyIdRules(value, error_on_blank),
                           MessageString(error_message))

(***************************************************************************)
(* Layer 2: the bound field definitions of exampleValidator.js.            *)
(***************************************************************************)
handleSSNField(d, element, value, error_on_blank) ==
  LET r1 == validateSSNField(d, element, value,
                             "You entered the incorrect format",
                             error_on_blank)
  IN bindFieldValidationArray(r1.dom, element, <<r1.ret>>, BooleanFlag(TRUE))

handleZipField(d, field, value, error_on_blank, required) ==
  LET r1 == validateZipField(d, field, value, "Incorrect Format",
                             error_on_blank)
      r2 == validateRequiredField(r1.dom, field, value,
                                  "This field is required")
  IN IF required = TRUE
     THEN bindFieldValidationArray(r2.dom, field, <<r1.ret, r2.ret>>,
                                   BooleanFlag(TRUE))
     ELSE bindFieldValidationArray(r1.dom, field, <<r1.ret>>,
                                   BooleanFlag(TRUE))

handleRequiredField(d, field, value) ==
  validateRequiredField(d, field, value, "Field is required")

handleRequiredOneForAllField(d, field, value, all_values) ==
  validateRequiredOneForAllField(d, field, value, all_values,
                                 "Required to complete address")

handleZipAllForOneField(d, field, value, all_values) ==
  LET r1 == validateZipField(d, field, value, "Incorrect Format", FALSE)
      r2 == validateRequiredOneForAllField(r1.dom, field, value, all_values,
                                           "Required to complete address")
  IN bindFieldValidationArray(r2.dom, field, <<r1.ret, r2.ret>>,
                              BooleanFlag(TRUE))

handlePhoneField(d, field, value, error_on_blank, required) ==
  LET r1 == validatePhoneField(d, field, value, "Incorrect Format",
                               error_on_blank)
      r2 == validateRequiredField(r1.dom, field, value, "Field is required")
  IN IF required = TRUE
     THEN bindFieldValidationArray(r2.dom, field, <<r1.ret, r2.ret>>,
                                   BooleanFlag(TRUE))
     ELSE bindFieldValidationArray(r1.dom, field, <<r1.ret>>,
                                   BooleanFlag(TRUE))

handleEmailField(d, field, value, error_on_blank) ==
  LET r1 == validateEmailField(d, field, value, "Incorrect Format",
                               error_on_blank)
      r2 == validateRequiredField(r1.dom, field, value, "Field is required")
  IN bindFieldValidationArray(r2.dom, field, <<r1.ret, r2.ret>>,
                              BooleanFlag(TRUE))

(***************************************************************************)
(* Inputs of the calls.                                                    *)
(***************************************************************************)
Blank == <<>>

Zip12345 == <<"1", "2", "3", "4", "5">>

Ssn == <<"1", "2", "3", "-", "4", "5", "-", "6", "7", "8", "9">>

Phone == <<"5", "5", "5", "-", "1", "2", "3", "-", "4", "5", "6", "7">>

Email == <<"a", "@", "b", ".", "c">>

Password == <<"A", "b", "c", "d", "1", "2", "3", "4">>

CompanyId == <<"A", "b", "1", "2">>

\* The values a validated field may hold: blank, one the validator accepts
\* and one it rejects.
SSNValues == {Blank, Ssn, Zip12345}

PhoneValues == {Blank, Phone, Zip12345}

EmailValues == {Blank, Email, Zip12345}

ZipValues == {Blank, Zip12345, CompanyId}

PasswordValues == {Blank, Password, CompanyId}

CompanyIdValues == {Blank, CompanyId, Zip12345}

RequiredValues == {Blank, Zip12345}

\* The values the second field of a two-field rule may hold.
LinkedValues == {Blank, Password}

\* The values the other fields of an all-for-one group may hold.
GroupValues == {<<Blank>>, <<Blank, CompanyId>>}

\* The error messages a caller of layer 3 or 4 passes.
Messages == {"Incorrect Format", "Field is required"}

\* The rule lists of at most n results.
BoolSeqs(n) == UNION {[1..k -> BOOLEAN] : k \in 0..n}

\* The report_error_message arguments.
Reports == {MessageString(m) : m \in Messages}
             \cup {BooleanFlag(b) : b \in BOOLEAN}

AllPass(rules) == \A i \in 1..Len(rules) : rules[i] = TRUE

(***************************************************************************)
(* State.                                                                  *)
(***************************************************************************)
VARIABLES
  container,  \* the DOM: see layer 4
  inputErr,
  labelErr,
  formErr,
  msgs,
  lastOp,     \* the call that completed last: its name, field, arguments,
              \* whether all its rules passed, what it returned, and
              \* whether the field carried error state before it
  scene,      \* progress of the scenario "two fields in error, the first
              \* recovers, then the second recovers"
  ruleset,    \* the last call of runValidationRuleset and its result
  pred,       \* the last call of a function of layer 5, or of the rule
              \* list of a validator, and its outcome
  run,        \* the blur handler that is executing, statement by
              \* statement: its arguments, the page it started on, the
              \* statement it is at and the rule results it has so far
  events      \* the event bindings of the page: whether attach has run,
              \* the bindings it installed, which selector matches each
              \* field, the field that has the focus and the last blur

vars == <<container, inputErr, labelErr, formErr, msgs, lastOp, scene,
          ruleset, pred, run, events>>

domVars == <<container, inputErr, labelErr, formErr, msgs>>

DOM == [container |-> container, inputErr |-> inputErr,
        labelErr |-> labelErr, formErr |-> formErr, msgs |-> msgs]

SetDOM(d) ==
  /\ container' = d.container
  /\ inputErr' = d.inputErr
  /\ labelErr' = d.labelErr
  /\ formErr' = d.formErr
  /\ msgs' = d.msgs

\* What a blur handler was called with and what its format rule returned.
NoArgs == [blank |-> FALSE, eob |-> FALSE, required |-> FALSE,
           format |-> TRUE]

NoOp == [op |-> "none", field |-> 1, ret |-> FALSE, pass |-> FALSE,
         msg |-> "", report |-> "none", preErr |-> FALSE, args |-> NoArgs]

NoScene == [stage |-> 0, a |-> 1, b |-> 1]

NoRuleset == [called |-> FALSE, callbacks |-> <<>>, return_errors |-> FALSE,
              halt_on_error |-> FALSE, result |-> BooleanResult(TRUE)]

NoPred == [fn |-> "none", value |-> <<>>, other |-> <<>>, eob |-> FALSE,
           result |-> FALSE, raises |-> FALSE]

NoRun == [op |-> "none", field |-> 1, value |-> <<>>, others |-> <<>>,
          eob |-> FALSE, required |-> FALSE, stage |-> "idle",
          results |-> <<>>, ret |-> FALSE,
          start |-> [container |-> [f \in Fields |-> 1],
                     inputErr |-> [f \in Fields |-> FALSE],
                     labelErr |-> [f \in Fields |-> FALSE],
                     formErr |-> FALSE,
                     msgs |-> [c \in Containers |-> <<>>]]]

NoBlur == [done |-> FALSE, field |-> 1, fails |-> FALSE, raised |-> FALSE]

NoEvents == [attached |-> FALSE, bound |-> {}, kind |-> [f \in Fields |-> "ssn"],
             focused |-> 0, blurred |-> NoBlur]

\* A page as Drupal renders it before any validation: no error classes, no
\* .messages nodes; the wrappers are all siblings or each has its own parent.
Init ==
  /\ container \in {[f \in Fields |-> 1], [f \in Fields |-> f]}
  /\ inputErr = [f \in Fields |-> FALSE]
  /\ labelErr = [f \in Fields |-> FALSE]
  /\ formErr = FALSE
  /\ msgs = [c \in Containers |-> <<>>]
  /\ lastOp = NoOp
  /\ scene = NoScene
  /\ ruleset = NoRuleset
  /\ pred = NoPred
  /\ run = NoRun
  /\ events = NoEvents

\* The call op on field f completed with r = [dom, ret].
Completed(op, f, r, pass, msg, report) ==
  /\ SetDOM(r.dom)
  /\ lastOp' = [op |-> op, field |-> f, ret |-> r.ret, pass |-> pass,
                msg |-> msg, report |-> report, preErr |-> inputErr[f],
                args |-> NoArgs]
  /\ scene' = NoScene

\* The blur handler op on field f, called on a value (blank or not) with
\* error_on_blank and required, completed with r = [dom, ret]; format is
\* what its format validation returned.
CompletedHandler(op, f, r, pass, blank, error_on_blank, required, format) ==
  /\ SetDOM(r.dom)
  /\ lastOp' = [op |-> op, field |-> f, ret |-> r.ret, pass |-> pass,
                msg |-> "", report |-> "true", preErr |-> inputErr[f],
                args |-> [blank |-> blank, eob |-> error_on_blank,
                          required |-> required, format |-> format]]
  /\ scene' = NoScene

(***************************************************************************)
(* Layer 4 called directly.                                                *)
(***************************************************************************)
SetErrorState ==
  \E f \in Fields, m \in Messages :
     /\ Completed("setErrorState", f,
                  [dom |-> setErrorState(DOM, f, m), ret |-> FALSE],
                  FALSE, m, "none")
     /\ UNCHANGED <<ruleset, pred, run, events>>

\* The focus handlers of the bindings.
RecoverErrorState ==
  \E f \in Fields, wrapped \in BOOLEAN :
     /\ SetDOM(recoverErrorState(DOM, f, wrapped))
     /\ lastOp' = [NoOp EXCEPT !.op = "recoverErrorState", !.field = f,
                               !.preErr = inputErr[f]]
     /\ scene' =
          IF /\ inputErr[f]
             /\ Cardinality({g \in Fields : inputErr[g]}) = 2
          THEN [stage |-> 1, a |-> f,
                b |-> CHOOSE g \in Fields : g # f /\ inputErr[g]]
          ELSE IF scene.stage = 1 /\ f = scene.b
               THEN [scene EXCEPT !.stage = 2]
               ELSE NoScene
     /\ UNCHANGED <<ruleset, pred, run, events>>

OtherErrorsExist ==
  \E f \in Fields :
     /\ Completed("otherErrorsExist", f,
                  [dom |-> DOM, ret |-> otherErrorsExist(DOM, f, FALSE)],
                  FALSE, "", "none")
     /\ UNCHANGED <<ruleset, pred, run, events>>

(***************************************************************************)
(* Layer 3 called directly.                                                *)
(***************************************************************************)
BindValidationError ==
  \E f \in Fields, callback \in BOOLEAN, m \in Messages :
     /\ Completed("bindValidationError", f,
                  bindValidationError(DOM, f, callback, m),
                  callback, m, "string")
     /\ UNCHANGED <<ruleset, pred, run, events>>

BindFieldValidationArray ==
  \E f \in Fields, rules \in BoolSeqs(2), report \in Reports :
     /\ Completed("bindFieldValidationArray", f,
                  bindFieldValidationArray(DOM, f, rules, report),
                  AllPass(rules), report.str,
                  IF report.type = "string" THEN "string"
                  ELSE IF report.bool THEN "true" ELSE "false")
     /\ UNCHANGED <<ruleset, pred, run, events>>

ValidateSSNField ==
  \E f \in Fields, v \in SSNValues, m \in Messages, eob \in BOOLEAN :
     /\ Completed("validateSSNField", f, validateSSNField(DOM, f, v, m, eob),
                  ssnValid(v, eob), m, "string")
     /\ UNCHANGED <<ruleset, pred, run, events>>

ValidatePhoneField ==
  \E f \in Fields, v \in PhoneValues, m \in Messages, eob \in BOOLEAN :
     /\ Completed("validatePhoneField", f,
                  validatePhoneField(DOM, f, v, m, eob),
                  phoneValid(v, eob), m, "string")
     /\ UNCHANGED <<ruleset, pred, run, events>>

ValidateEmailField ==
  \E f \in Fields, v \in EmailValues, m \in Messages, eob \in BOOLEAN :
     /\ Completed("validateEmailField", f,
                  validateEmailField(DOM, f, v, m, eob),
                  emailValid(v, eob), m, "string")
     /\ UNCHANGED <<ruleset, pred, run, events>>

ValidateZipField ==
  \E f \in Fields, v \in ZipValues, m \in Messages, eob \in BOOLEAN :
     /\ Completed("validateZipField", f, validateZipField(DOM, f, v, m, eob),
                  AllPass(ZipRules(v, eob)), m, "string")
     /\ UNCHANGED <<ruleset, pred, run, events>>

ValidatePasswordField ==
  \E f \in Fields, v \in PasswordValues, u \in LinkedValues, m \in Messages :
     /\ Completed("validatePasswordField", f,
                  validatePasswordField(DOM, f, v, u, m),
                  AllPass(PasswordRules(v, u)), m, "string")
     /\ UNCHANGED <<ruleset, pred, run, events>>

ValidateSecurityField ==
  \E f \in Fields, v \in PasswordValues, u \in LinkedValues, m \in Messages,
     eob \in BOOLEAN :
     /\ Completed("validateSecurityField", f,
                  validateSecurityField(DOM, f, v, u, m, eob),
                  AllPass(SecurityRules(v, u, eob)), m, "string")
     /\ UNCHANGED <<ruleset, pred, run, events>>

ValidateConfirmField ==
  \E f \in Fields, v \in PasswordValues, u \in LinkedValues, m \in Messages,
     eob \in BOOLEAN :
     /\ Completed("validateConfirmField", f,
                  validateConfirmField(DOM, u, f, v, eob, m),
                  fieldsMatch(u, v, eob), m, "string")
     /\ UNCHANGED <<ruleset, pred, run, events>>

ValidateRequiredField ==
  \E f \in Fields, v \in RequiredValues, m \in Messages :
     /\ Completed("validateRequiredField", f,
                  validateRequiredField(DOM, f, v, m),
                  fieldNotEmpty(v), m, "string")
     /\ UNCHANGED <<ruleset, pred, run, events>>

ValidateRequiredOneForAllField ==
  \E f \in Fields, v \in RequiredValues, others \in GroupValues,
     m \in Messages :
     /\ Completed("validateRequiredOneForAllField", f,
                  validateRequiredOneForAllField(DOM, f, v, others, m),
                  NotEmptyIfAnyFieldsNotEmpty(v, others), m, "string")
     /\ UNCHANGED <<ruleset, pred, run, events>>

ValidateCompanyIdField ==
  \E f \in Fields, v \in CompanyIdValues, m \in Messages, eob \in BOOLEAN :
     /\ Completed("validateCompanyIdField", f,
                  validateCompanyIdField(DOM, f, v, m, eob),
                  AllPass(CompanyIdRules(v, eob)), m, "string")
     /\ UNCHANGED <<ruleset, pred, run, events>>

(***************************************************************************)
(* Layer 2: the blur handlers.                                             *)
(***************************************************************************)
HandleSSNField ==
  \E f \in Fields, v \in SSNValues, eob \in BOOLEAN :
     /\ CompletedHandler("handleSSNField", f, handleSSNField(DOM, f, v, eob),
                         ssnValid(v, eob), v = Blank, eob, FALSE,
                         ssnValid(v, eob))
     /\ UNCHANGED <<ruleset, pred, run, events>>

HandleZipField ==
  \E f \in Fields, v \in ZipValues, eob \in BOOLEAN, required \in BOOLEAN :
     /\ CompletedHandler("handleZipField", f,
                         handleZipField(DOM, f, v, eob, required),
                         AllPass(ZipRules(v, eob))
                           /\ (required => fieldNotEmpty(v)),
                         v = Blank, eob, required, AllPass(ZipRules(v, eob)))
     /\ UNCHANGED <<ruleset, pred, run, events>>

HandleRequiredField ==
  \E f \in Fields, v \in RequiredValues :
     /\ Completed("handleRequiredField", f, handleRequiredField(DOM, f, v),
                  fieldNotEmpty(v), "Field is required", "string")
     /\ UNCHANGED <<ruleset, pred, run, events>>

HandleRequiredOneForAllField ==
  \E f \in Fields, v \in RequiredValues, others \in GroupValues :
     /\ Completed("handleRequiredOneForAllField", f,
                  handleRequiredOneForAllField(DOM, f, v, others),
                  NotEmptyIfAnyFieldsNotEmpty(v, others),
                  "Required to complete address", "string")
     /\ UNCHANGED <<ruleset, pred, run, events>>

HandleZipAllForOneField ==
  \E f \in Fields, v \in ZipValues, others \in GroupValues :
     /\ CompletedHandler("handleZipAllForOneField", f,
                         handleZipAllForOneField(DOM, f, v, others),
                         AllPass(ZipRules(v, FALSE))
                           /\ NotEmptyIfAnyFieldsNotEmpty(v, others),
                         v = Blank, FALSE, TRUE, AllPass(ZipRules(v, FALSE)))
     /\ UNCHANGED <<ruleset, pred, run, events>>

HandlePhoneField ==
  \E f \in Fields, v \in PhoneValues, eob \in BOOLEAN, required \in BOOLEAN :
     /\ CompletedHandler("handlePhoneField", f,
                         handlePhoneField(DOM, f, v, eob, required),
                         phoneValid(v, eob) /\ (required => fieldNotEmpty(v)),
                         v = Blank, eob, required, phoneValid(v, eob))
     /\ UNCHANGED <<ruleset, pred, run, events>>

HandleEmailField ==
  \E f \in Fields, v \in EmailValues, eob \in BOOLEAN :
     /\ CompletedHandler("handleEmailField", f,
                         handleEmailField(DOM, f, v, eob),
                         emailValid(v, eob) /\ fieldNotEmpty(v),
                         v = Blank, eob, TRUE, emailValid(v, eob))
     /\ UNCHANGED <<ruleset, pred, run, events>>

Next ==
  \/ SetErrorState
  \/ RecoverErrorState
  \/ OtherErrorsExist
  \/ BindValidationError
  \/ BindFieldValidationArray
  \/ ValidateSSNField
  \/ ValidatePhoneField
  \/ ValidateEmailField
  \/ ValidateZipField
  \/ ValidatePasswordField
  \/ ValidateSecurityField
  \/ ValidateConfirmField
  \/ ValidateRequiredField
  \/ ValidateRequiredOneForAllField
  \/ ValidateCompanyIdField

\* The library: layers 3 and 4, called in any order.
Spec == Init /\ [][Next]_vars

NextHandlers ==
  \/ RecoverErrorState
  \/ HandleSSNField
  \/ HandleZipField
  \/ HandleRequiredField
  \/ HandleRequiredOneForAllField
  \/ HandleZipAllForOneField
  \/ HandlePhoneField
  \/ HandleEmailField

\* The example bindings: focus recovers a field, blur runs its handler.
SpecHandlers == Init /\ [][NextHandlers]_vars

NextErrorState ==
  \/ SetErrorState
  \/ RecoverErrorState

\* Layer 4 alone: every state of the page that calls of setErrorState and
\* recoverErrorState can produce.
SpecErrorState == Init /\ [][NextErrorState]_vars

(***************************************************************************)
(* The rule evaluator on its own: every rule list of at most MaxRules      *)
(* results under every combination of its two flags.                       *)
(***************************************************************************)
RunValidationRuleset ==
  \E rules \in BoolSeqs(MaxRules), return_errors \in BOOLEAN,
     halt_on_error \in BOOLEAN :
     /\ ruleset' = [called |-> TRUE, callbacks |-> rules,
                    return_errors |-> return_errors,
                    halt_on_error |-> halt_on_error,
                    result |-> runValidationRuleset(rules, return_errors,
                                                    halt_on_error)]
     /\ UNCHANGED <<domVars, lastOp, scene, pred, run, events>>

NextRuleset == RunValidationRuleset

SpecRuleset == Init /\ [][NextRuleset]_vars

(***************************************************************************)
(* Layer 5 on its own: a value, a second value and an error_on_blank flag  *)
(* are drawn, and one function of layer 5, or the rule list of one         *)
(* validator, is applied to them.                                          *)
(***************************************************************************)

\* Longest string of the strings enumerated over Alphabet.
MaxLen == 2

\* A digit, a lower and an upper case letter, the dash, and characters that
\* no format allows.
Alphabet == {"1", "a", "A", "-", "(", "@", "."}

Strings(n) == UNION {[1..k -> Alphabet] : k \in 0..n}

Repeat(c, n) == [i \in 1..n |-> c]

Dash(b) == IF b THEN <<"-">> ELSE <<>>

\* The phone number aaa-bbb-cccc, with or without each dash.
PhoneNumber(a, b, c, dash1, dash2) ==
  Repeat(a, 3) \o Dash(dash1) \o Repeat(b, 3) \o Dash(dash2) \o Repeat(c, 4)

PhoneNumbers ==
  {PhoneNumber(a, b, c, dash1, dash2) :
     a \in {"1", "2"}, b \in {"1", "2"}, c \in {"1", "2"},
     dash1 \in BOOLEAN, dash2 \in BOOLEAN}

\* (555)123-4567
ParenPhone ==
  <<"(", "5", "5", "5", ")", "1", "2", "3", "-", "4", "5", "6", "7">>

\* Passwords that miss one of the rules of validatePasswordField each, and
\* passwords at the ends of the length range.
Passwords ==
  {Password,
   <<"a", "b", "c", "d", "1", "2", "3", "4">>,
   <<"A", "B", "C", "D", "1", "2", "3", "4">>,
   <<"A", "b", "c", "d", "e", "f", "g", "h">>,
   <<"A", "b", "c", "d", "1", "2", "3">>,
   Password \o Repeat("x", 120),
   Password \o Repeat("x", 121)}

\* User ids: none, one the password contains, one that contains the
\* password, the password itself.
UserIds ==
  {Blank, <<"b", "c", "d", "1">>, Password \o <<"5">>, Password}

Values ==
  Strings(MaxLen) \cup PhoneNumbers \cup Passwords
    \cup {Zip12345, Ssn, Phone, Email, CompanyId, ParenPhone}

InitPredicates ==
  /\ container = [f \in Fields |-> f]
  /\ inputErr = [f \in Fields |-> FALSE]
  /\ labelErr = [f \in Fields |-> FALSE]
  /\ formErr = FALSE
  /\ msgs = [c \in Containers |-> <<>>]
  /\ lastOp = NoOp
  /\ scene = NoScene
  /\ ruleset = NoRuleset
  /\ run = NoRun
  /\ events = NoEvents
  /\ \E v \in Values, o \in UserIds, eob \in BOOLEAN :
        pred = [NoPred EXCEPT !.value = v, !.other = o, !.eob = eob]

\* The function fn applied to the drawn arguments returned b.
Returned(fn, b) == [pred EXCEPT !.fn = fn, !.result = b]

\* The function fn applied to the drawn arguments raised an exception.
Raised(fn) == [pred EXCEPT !.fn = fn, !.raises = TRUE]

\* The rule list of a validator as bindFieldValidationArray evaluates it.
RulesPass(rules) == runValidationRuleset(rules, FALSE, TRUE).bool

LengthValid ==
  /\ pred.fn = "none"
  /\ \E range \in {<<1, 999999>>, <<4, 4>>, <<5, 5>>, <<8, 128>>, <<4, 512>>} :
        pred' = Returned("lengthValid",
                         lengthValid(pred.value, range[1], range[2],
                                     pred.eob))
  /\ UNCHANGED <<domVars, lastOp, scene, ruleset, run, events>>

FieldNotEmpty ==
  /\ pred.fn = "none"
  /\ pred' = Returned("fieldNotEmpty", fieldNotEmpty(pred.value))
  /\ UNCHANGED <<domVars, lastOp, scene, ruleset, run, events>>

FieldsMatch ==
  /\ pred.fn = "none"
  /\ pred' = Returned("fieldsMatch",
                      fieldsMatch(pred.other, pred.value, pred.eob))
  /\ UNCHANGED <<domVars, lastOp, scene, ruleset, run, events>>

SsnValid ==
  /\ pred.fn = "none"
  /\ pred' = Returned("ssnValid", ssnValid(pred.value, pred.eob))
  /\ UNCHANGED <<domVars, lastOp, scene, ruleset, run, events>>

EmailValid ==
  /\ pred.fn = "none"
  /\ pred' = Returned("emailValid", emailValid(pred.value, pred.eob))
  /\ UNCHANGED <<domVars, lastOp, scene, ruleset, run, events>>

PhoneValid ==
  /\ pred.fn = "none"
  /\ pred' = IF phoneValidThrows(pred.value, pred.eob)
             THEN Raised("phoneValid")
             ELSE Returned("phoneValid", phoneValid(pred.value, pred.eob))
  /\ UNCHANGED <<domVars, lastOp, scene, ruleset, run, events>>

DoesNotContainValue ==
  /\ pred.fn = "none"
  /\ pred' = Returned("doesNotContainValue",
                      doesNotContainValue(pred.other, pred.value, pred.eob))
  /\ UNCHANGED <<domVars, lastOp, scene, ruleset, run, events>>

ContainsNumber ==
  /\ pred.fn = "none"
  /\ pred' = Returned("containsNumber", containsNumber(pred.value))
  /\ UNCHANGED <<domVars, lastOp, scene, ruleset, run, events>>

ContainsOnlyAlphaNumeric ==
  /\ pred.fn = "none"
  /\ pred' = Returned("containsOnlyAlphaNumeric",
                      containsOnlyAlphaNumeric(pred.value))
  /\ UNCHANGED <<domVars, lastOp, scene, ruleset, run, events>>

ContainsOnlyNumeric ==
  /\ pred.fn = "none"
  /\ pred' = Returned("containsOnlyNumeric", containsOnlyNumeric(pred.value))
  /\ UNCHANGED <<domVars, lastOp, scene, ruleset, run, events>>

ContainsLowerAndUppercase ==
  /\ pred.fn = "none"
  /\ pred' = Returned("containsLowerAndUppercase",
                      containsLowerAndUppercase(pred.value))
  /\ UNCHANGED <<domVars, lastOp, scene, ruleset, run, events>>

\* The rule lists of validateZipField, validateCompanyIdField,
\* validateSecurityField and validatePasswordField.
ZipFormat ==
  /\ pred.fn = "none"
  /\ pred' = Returned("ZipRules", RulesPass(ZipRules(pred.value, pred.eob)))
  /\ UNCHANGED <<domVars, lastOp, scene, ruleset, run, events>>

CompanyIdFormat ==
  /\ pred.fn = "none"
  /\ pred' = Returned("CompanyIdRules",
                      RulesPass(CompanyIdRules(pred.value, pred.eob)))
  /\ UNCHANGED <<domVars, lastOp, scene, ruleset, run, events>>

SecurityFormat ==
  /\ pred.fn = "none"
  /\ pred' = Returned("SecurityRules",
                      RulesPass(SecurityRules(pred.value, pred.other,
                                              pred.eob)))
  /\ UNCHANGED <<domVars, lastOp, scene, ruleset, run, events>>

PasswordFormat ==
  /\ pred.fn = "none"
  /\ pred' = Returned("PasswordRules",
                      RulesPass(PasswordRules(pred.value, pred.other)))
  /\ UNCHANGED <<domVars, lastOp, scene, ruleset, run, events>>

NextPredicates ==
  \/ LengthValid
  \/ FieldNotEmpty
  \/ FieldsMatch
  \/ SsnValid
  \/ EmailValid
  \/ PhoneValid
  \/ DoesNotContainValue
  \/ ContainsNumber
  \/ ContainsOnlyAlphaNumeric
  \/ ContainsOnlyNumeric
  \/ ContainsLowerAndUppercase
  \/ ZipFormat
  \/ CompanyIdFormat
  \/ SecurityFormat
  \/ PasswordFormat

SpecPredicates == InitPredicates /\ [][NextPredicates]_vars

(***************************************************************************)
(* Layer 2 statement by statement: a blur handler that builds a rule list  *)
(* evaluates the elements of the array literal in order, each a call of a  *)
(* validate*Field function, and then hands the array of their results to   *)
(* bindFieldValidationArray.  JavaScript runs one handler at a time.       *)
(***************************************************************************)

\* The handlers that build a rule list.
RuleListHandlers ==
  {"handleSSNField", "handleZipField", "handleZipAllForOneField",
   "handlePhoneField", "handleEmailField"}

\* The values the field of a handler may hold.
HandlerValues(op) ==
  CASE op = "handleSSNField" -> SSNValues
    [] op = "handlePhoneField" -> PhoneValues
    [] op = "handleEmailField" -> EmailValues
    [] OTHER -> ZipValues

\* The handler is called: nothing of its body has run yet.
HandlerCalled ==
  /\ run.stage \in {"idle", "returned"}
  /\ \E op \in RuleListHandlers, f \in Fields, eob \in BOOLEAN,
        required \in BOOLEAN, others \in GroupValues :
        \E v \in HandlerValues(op) :
           /\ op \in {"handleZipField", "handlePhoneField"} \/ required
           /\ op = "handleZipAllForOneField" \/ others = <<Blank>>
           /\ op = "handleZipAllForOneField" => ~eob
           /\ run' = [op |-> op, field |-> f, value |-> v, others |-> others,
                      eob |-> eob,
                      required |-> required /\ op # "handleSSNField",
                      stage |-> "format", results |-> <<>>, ret |-> FALSE,
                      start |-> DOM]
  /\ UNCHANGED <<domVars, lastOp, scene, ruleset, pred, events>>

\* The first element of the array: the format validation.
FormatValidation(d) ==
  CASE run.op = "handleSSNField" ->
         validateSSNField(d, run.field, run.value,
                          "You entered the incorrect format", run.eob)
    [] run.op = "handleZipField" ->
         validateZipField(d, run.field, run.value, "Incorrect Format",
                          run.eob)
    [] run.op = "handleZipAllForOneField" ->
         validateZipField(d, run.field, run.value, "Incorrect Format", FALSE)
    [] run.op = "handlePhoneField" ->
         validatePhoneField(d, run.field, run.value, "Incorrect Format",
                            run.eob)
    [] OTHER ->
         validateEmailField(d, run.field, run.value, "Incorrect Format",
                            run.eob)

\* The second element of the array: the Required validation.
RequiredValidation(d) ==
  CASE run.op = "handleZipField" ->
         validateRequiredField(d, run.field, run.value,
                               "This field is required")
    [] run.op = "handleZipAllForOneField" ->
         validateRequiredOneForAllField(d, run.field, run.value, run.others,
                                        "Required to complete address")
    [] OTHER ->
         validateRequiredField(d, run.field, run.value, "Field is required")

FormatRuleEvaluated ==
  /\ run.stage = "format"
  /\ LET r == FormatValidation(DOM) IN
     /\ SetDOM(r.dom)
     /\ run' = [run EXCEPT !.results = <<r.ret>>,
                           !.stage = IF run.required THEN "required"
                                     ELSE "evaluate"]
  /\ UNCHANGED <<lastOp, scene, ruleset, pred, events>>

RequiredRuleEvaluated ==
  /\ run.stage = "required"
  /\ LET r == RequiredValidation(DOM) IN
     /\ SetDOM(r.dom)
     /\ run' = [run EXCEPT !.results = Append(run.results, r.ret),
                           !.stage = "evaluate"]
  /\ UNCHANGED <<lastOp, scene, ruleset, pred, events>>

\* bindFieldValidationArray(field, validation_array, true): the rule
\* evaluator runs on the whole rule list and the handler returns.
RuleListEvaluated ==
  /\ run.stage = "evaluate"
  /\ LET r == bindFieldValidationArray(DOM, run.field, run.results,
                                       BooleanFlag(TRUE)) IN
     /\ SetDOM(r.dom)
     /\ run' = [run EXCEPT !.stage = "returned", !.ret = r.ret]
  /\ UNCHANGED <<lastOp, scene, ruleset, pred, events>>

NextSteps ==
  \/ HandlerCalled
  \/ FormatRuleEvaluated
  \/ RequiredRuleEvaluated
  \/ RuleListEvaluated

SpecSteps == Init /\ [][NextSteps]_vars

\* The handler of run as one call on the page d.
HandlerOf(d) ==
  CASE run.op = "handleSSNField" ->
         handleSSNField(d, run.field, run.value, run.eob)
    [] run.op = "handleZipField" ->
         handleZipField(d, run.field, run.value, run.eob, run.required)
    [] run.op = "handleZipAllForOneField" ->
         handleZipAllForOneField(d, run.field, run.value, run.others)
    [] run.op = "handlePhoneField" ->
         handlePhoneField(d, run.field, run.value, run.eob, run.required)
    [] OTHER ->
         handleEmailField(d, run.field, run.value, run.eob)

\* A handler run statement by statement leaves the page, and returns, what
\* the handler as one call does.
StepsAgreeWithHandlers ==
  run.stage = "returned"
    => HandlerOf(run.start) = [dom |-> DOM, ret |-> run.ret]

(***************************************************************************)
(* Layer 1: Drupal.behaviors.drupalValidator.attach and the focus and blur *)
(* events of the fields.  One field has the focus at a time; the value a   *)
(* field holds when it loses the focus is an input of the blur event.      *)
(***************************************************************************)

\* The groups of bindings in the order attach installs them.
BindingGroups == <<"names", "start_date", "ssn", "email", "zip", "phone">>

\* The receiver of the .on calls of a group is a jQuery object.  The
\* bindings of the names are made on "name", which attach does not declare
\* (it declares "names"): it is window.name, a string, and name.on is not a
\* function, so the call raises TypeError and attach ends there.
ReceiverIsJQuery(group) == group # "names"

\* The groups whose bindings attach has installed when it ends.
Installed ==
  {BindingGroups[i] : i \in {j \in 1..Len(BindingGroups) :
                              \A k \in 1..j :
                                 ReceiverIsJQuery(BindingGroups[k])}}

\* The selectors whose blur handler builds a rule list.
Kinds == {"ssn", "email", "zip", "phone"}

\* The values a field of a kind may hold when it loses the focus.
EventValues(kind) ==
  CASE kind = "ssn" -> SSNValues
    [] kind = "email" -> EmailValues
    [] kind = "zip" -> ZipValues
    [] OTHER -> PhoneValues \cup {ParenPhone}

\* The blur binding of a kind.
BlurHandler(d, kind, f, v) ==
  CASE kind = "ssn" -> handleSSNField(d, f, v, FALSE)
    [] kind = "email" -> handleEmailField(d, f, v, FALSE)
    [] kind = "zip" -> handleZipField(d, f, v, FALSE, TRUE)
    [] OTHER -> handlePhoneField(d, f, v, FALSE, FALSE)

\* Every rule of the blur binding of a kind passes for the value v.
BlurRulesPass(kind, v) ==
  CASE kind = "ssn" -> ssnValid(v, FALSE)
    [] kind = "email" -> emailValid(v, FALSE) /\ fieldNotEmpty(v)
    [] kind = "zip" -> AllPass(ZipRules(v, FALSE)) /\ fieldNotEmpty(v)
    [] OTHER -> phoneValid(v, FALSE)

Attach ==
  /\ ~events.attached
  /\ \E kind \in [Fields -> Kinds] :
        events' = [events EXCEPT !.attached = TRUE, !.bound = Installed,
                                 !.kind = kind]
  /\ UNCHANGED <<domVars, lastOp, scene, ruleset, pred, run>>

\* A field gets the focus: its focus binding, if installed, runs
\* recoverErrorState(this).
Focus ==
  /\ events.attached
  /\ events.focused = 0
  /\ \E f \in Fields :
        /\ events' = [events EXCEPT !.focused = f, !.blurred = NoBlur]
        /\ SetDOM(IF events.kind[f] \in events.bound
                  THEN recoverErrorState(DOM, f, FALSE)
                  ELSE DOM)
  /\ UNCHANGED <<lastOp, scene, ruleset, pred, run>>

\* The field that has the focus loses it: its blur binding, if installed,
\* runs the handler; a handler that raises leaves the page as it is.
Blur ==
  /\ events.focused # 0
  /\ LET f == events.focused
         kind == events.kind[f]
     IN \E v \in EventValues(kind) :
           LET raised == /\ kind \in events.bound
                         /\ kind = "phone"
                         /\ phoneValidThrows(v, FALSE)
           IN /\ events' = [events EXCEPT
                              !.focused = 0,
                              !.blurred = [done |-> TRUE, field |-> f,
                                           fails |-> ~BlurRulesPass(kind, v),
                                           raised |-> raised]]
              /\ SetDOM(IF kind \in events.bound /\ ~raised
                        THEN BlurHandler(DOM, kind, f, v).dom
                        ELSE DOM)
  /\ UNCHANGED <<lastOp, scene, ruleset, pred, run>>

NextEvents ==
  \/ Attach
  \/ Focus
  \/ Blur

SpecEvents == Init /\ [][NextEvents]_vars

(***************************************************************************)
(* Properties.                                                             *)
(***************************************************************************)

\* The .messages nodes that show the message of field f.
MessageNodes(f) == msgs[container[f]]

MessageCleared(f) ==
  \A i \in 1..Len(MessageNodes(f)) : MessageNodes(f)[i].text = ""

MessageDisplayed(f, m) ==
  /\ Len(MessageNodes(f)) >= 1
  /\ \A i \in 1..Len(MessageNodes(f)) : MessageNodes(f)[i].text = m

\* The validators of layer 3 built on bindValidationError.
ErrorValidators ==
  {"validateRequiredField", "validateRequiredOneForAllField",
   "validateSSNField", "validatePhoneField", "validateEmailField",
   "validateConfirmField"}

\* The validators of layer 3 built on bindFieldValidationArray.
ArrayValidators ==
  {"validateZipField", "validatePasswordField", "validateSecurityField",
   "validateCompanyIdField"}

\* The handlers of layer 2.
Handlers ==
  {"handleSSNField", "handleZipField", "handleRequiredField",
   "handleRequiredOneForAllField", "handleZipAllForOneField",
   "handlePhoneField", "handleEmailField"}

\* Every call that validates a field.
Validations ==
  ErrorValidators \cup ArrayValidators \cup Handlers
    \cup {"bindValidationError", "bindFieldValidationArray"}

\* C1: when a validation call on a field has completed, the field carries
\* error state if and only if that call returned failure: the most recently
\* completed validation call determines the error state of its field.
C1_LastValidationDecidesErrorState ==
  lastOp.op \in Validations
    => (inputErr[lastOp.field] <=> lastOp.ret = FALSE)

\* C2: the form carries class form-error-state if and only if at least one
\* of its fields carries error state.
C2_FormIndicatorMatchesFields ==
  formErr <=> \E f \in Fields : inputErr[f]

\* C2 witness: a field has recovered while another field is still in error,
\* and the form indicator is still set.
C2_Witness ==
  /\ lastOp.op = "recoverErrorState"
  /\ lastOp.preErr
  /\ ~inputErr[lastOp.field]
  /\ \E g \in Fields : inputErr[g]
  /\ formErr

\* The field of the last call is cleared: no error class on the input or on
\* its label, its message emptied, and the form indicator left set exactly
\* when otherErrorsExist finds another field in error.
FieldCleared ==
  LET f == lastOp.field IN
  /\ ~inputErr[f]
  /\ ~labelErr[f]
  /\ MessageCleared(f)
  /\ formErr <=> otherErrorsExist(DOM, f, FALSE)

C4_FailureSetsErrorWithMessage ==
  ( /\ lastOp.op \in ErrorValidators \cup ArrayValidators
                       \cup {"bindValidationError", "bindFieldValidationArray"}
    /\ lastOp.report = "string"
    /\ ~lastOp.pass )
    => ( /\ lastOp.ret = FALSE
         /\ inputErr[lastOp.field]
         /\ MessageDisplayed(lastOp.field, lastOp.msg)
         /\ formErr )

\* C4 witness: bindFieldValidationArray was called with a message string and
\* a failing rule on a field that was in error already, so that its message
\* node existed before the call.
C4_Witness ==
  /\ lastOp.op = "bindFieldValidationArray"
  /\ lastOp.report = "string"
  /\ ~lastOp.pass
  /\ lastOp.preErr
  /\ lastOp.msg = "Field is required"

\* C5: bindFieldValidationArray and the handlers built on it return true
\* exactly when every rule of the rule list passed, whatever the form of
\* report_error_message.
C5_ReturnsWhetherAllRulesPassed ==
  lastOp.op \in {"bindFieldValidationArray", "handleSSNField",
                 "handleZipField", "handleZipAllForOneField",
                 "handlePhoneField", "handleEmailField"}
    => (lastOp.ret <=> lastOp.pass)

\* C6: in short-circuit mode (halt_on_error, not return_errors)
\* runValidationRuleset returns false iff the rule list has a first false
\* entry, all entries before it being true, and true iff every entry is
\* true, the empty list included.
C6_ShortCircuitResult ==
  (ruleset.called /\ ruleset.halt_on_error /\ ~ruleset.return_errors)
    => LET R == ruleset.callbacks IN
       /\ ruleset.result.type = "boolean"
       /\ ruleset.result.bool = FALSE
            <=> \E i \in 1..Len(R) :
                   R[i] = FALSE /\ \A j \in 1..(i - 1) : R[j] = TRUE
       /\ ruleset.result.bool = TRUE <=> \A i \in 1..Len(R) : R[i] = TRUE
       /\ R = <<>> => ruleset.result.bool = TRUE

\* C6 witness: a rule list whose first false entry comes after a true one
\* was evaluated in short-circuit mode.
C6_Witness ==
  /\ ruleset.called
  /\ ruleset.halt_on_error
  /\ ~ruleset.return_errors
  /\ Len(ruleset.callbacks) >= 3
  /\ ruleset.callbacks[1] = TRUE
  /\ ruleset.callbacks[2] = FALSE
  /\ ruleset.result = BooleanResult(FALSE)

\* The rule list R reordered by the permutation p of its indices.
Reordered(R, p) == [i \in 1..Len(R) |-> R[p[i]]]

\* C7: in aggregated mode without short-circuit (neither halt_on_error nor
\* return_errors) runValidationRuleset returns true iff every entry is true,
\* returns the same for every reordering of the list, and returns what
\* short-circuit mode returns for the list.
C7_AggregatedResult ==
  (ruleset.called /\ ~ruleset.halt_on_error /\ ~ruleset.return_errors)
    => LET R == ruleset.callbacks IN
       /\ ruleset.result.type = "boolean"
       /\ ruleset.result.bool <=> \A i \in 1..Len(R) : R[i] = TRUE
       /\ \A p \in Permutations(1..Len(R)) :
             runValidationRuleset(Reordered(R, p), FALSE, FALSE)
               = ruleset.result
       /\ runValidationRuleset(R, FALSE, TRUE) = ruleset.result

\* C7 witness: a rule list with a false entry after a true one was evaluated
\* in aggregated mode and failed.
C7_Witness ==
  /\ ruleset.called
  /\ ~ruleset.halt_on_error
  /\ ~ruleset.return_errors
  /\ Len(ruleset.callbacks) >= 2
  /\ ruleset.callbacks[1] = TRUE
  /\ ruleset.callbacks[Len(ruleset.callbacks)] = FALSE
  /\ ruleset.result = BooleanResult(FALSE)

\* C8: with return_errors, runValidationRuleset returns the rule list
\* unmodified, with halt_on_error and without it.
C8_ReturnsRawSequence ==
  (ruleset.called /\ ruleset.return_errors)
    => ruleset.result = ArrayResult(ruleset.callbacks)

\* C9: otherErrorsExist(f) returns true whenever a field other than f is in
\* error and false whenever no field other than f is in error, f itself
\* being in error or not.
C9_OtherErrorsExcludesElement ==
  lastOp.op = "otherErrorsExist"
    => LET f == lastOp.field IN
       /\ (\E g \in Fields : g # f /\ inputErr[g]) => lastOp.ret = TRUE
       /\ (\A g \in Fields : g # f => ~inputErr[g]) => lastOp.ret = FALSE

\* C9 witness: otherErrorsExist was called for a field that is in error
\* while no other field is, and returned false.
C9_Witness ==
  /\ lastOp.op = "otherErrorsExist"
  /\ inputErr[lastOp.field]
  /\ \A g \in Fields : g # lastOp.field => ~inputErr[g]
  /\ lastOp.ret = FALSE

\* C10: from a form in which exactly the fields A and B are in error, after
\* recoverErrorState on A the form indicator is still set, and after
\* recoverErrorState on B next it is removed; for either order of A and B.
C10_ScopeClearing ==
  /\ scene.stage = 1 => (formErr /\ ~inputErr[scene.a] /\ inputErr[scene.b])
  /\ scene.stage = 2 => (~formErr /\ ~inputErr[scene.a] /\ ~inputErr[scene.b])

\* C10 witness: both recoveries have happened, the second field recovered
\* being the one with the smaller index.
C10_Witness == scene.stage = 2 /\ scene.b < scene.a

\* The call whose result is first, made again on the state first left,
\* gives second: same state, same return value.
SameAgain(first, second) ==
  /\ second.dom = first.dom
  /\ second.ret = first.ret

\* A field that shows no error: no error class on the input or on its
\* label, every message node of it empty.
AlreadyClear(f) == ~inputErr[f] /\ ~labelErr[f] /\ MessageCleared(f)

\* C11: from every state, for every validator of layer 3, every handler of
\* layer 2 and every argument list, the call made twice in immediate
\* succession with the same arguments leaves after the second call exactly
\* the state the first call left (error classes of input and label, form
\* indicator, message texts, number of message nodes) and returns the same;
\* setErrorState repeated with the same message changes nothing,
\* recoverErrorState repeated changes nothing, and recoverErrorState on a
\* field that shows no error changes nothing.
C11_ValidationIdempotent ==
  /\ \A f \in Fields, m \in Messages :
        LET d1 == setErrorState(DOM, f, m) IN setErrorState(d1, f, m) = d1
  /\ \A f \in Fields, w \in BOOLEAN :
        LET d1 == recoverErrorState(DOM, f, w)
        IN recoverErrorState(d1, f, w) = d1
  /\ \A f \in Fields, w \in BOOLEAN :
        AlreadyClear(f) => recoverErrorState(DOM, f, w) = DOM
  /\ lastOp.op = "setErrorState"
       => setErrorState(DOM, lastOp.field, lastOp.msg) = DOM
  /\ lastOp.op = "recoverErrorState"
       => \A w \in BOOLEAN : recoverErrorState(DOM, lastOp.field, w) = DOM
  /\ \A f \in Fields, m \in Messages, eob \in BOOLEAN :
        /\ \A b \in BOOLEAN :
              LET r == bindValidationError(DOM, f, b, m)
              IN SameAgain(r, bindValidationError(r.dom, f, b, m))
        /\ \A v \in SSNValues :
              LET r == validateSSNField(DOM, f, v, m, eob)
              IN SameAgain(r, validateSSNField(r.dom, f, v, m, eob))
        /\ \A v \in PhoneValues :
              LET r == validatePhoneField(DOM, f, v, m, eob)
              IN SameAgain(r, validatePhoneField(r.dom, f, v, m, eob))
        /\ \A v \in EmailValues :
              LET r == validateEmailField(DOM, f, v, m, eob)
              IN SameAgain(r, validateEmailField(r.dom, f, v, m, eob))
        /\ \A v \in ZipValues :
              LET r == validateZipField(DOM, f, v, m, eob)
              IN SameAgain(r, validateZipField(r.dom, f, v, m, eob))
        /\ \A v \in CompanyIdValues :
              LET r == validateCompanyIdField(DOM, f, v, m, eob)
              IN SameAgain(r, validateCompanyIdField(r.dom, f, v, m, eob))
        /\ \A v \in PasswordValues, u \in LinkedValues :
              /\ LET r == validatePasswordField(DOM, f, v, u, m)
                 IN SameAgain(r, validatePasswordField(r.dom, f, v, u, m))
              /\ LET r == validateSecurityField(DOM, f, v, u, m, eob)
                 IN SameAgain(r, validateSecurityField(r.dom, f, v, u, m,
                                                       eob))
              /\ LET r == validateConfirmField(DOM, u, f, v, eob, m)
                 IN SameAgain(r, validateConfirmField(r.dom, u, f, v, eob,
                                                      m))
        /\ \A v \in RequiredValues :
              /\ LET r == validateRequiredField(DOM, f, v, m)
                 IN SameAgain(r, validateRequiredField(r.dom, f, v, m))
              /\ \A others \in GroupValues :
                    LET r == validateRequiredOneForAllField(DOM, f, v,
                                                            others, m)
                    IN SameAgain(r, validateRequiredOneForAllField(
                                      r.dom, f, v, others, m))
  /\ \A f \in Fields, rules \in BoolSeqs(2), report \in Reports :
        LET r == bindFieldValidationArray(DOM, f, rules, report)
        IN SameAgain(r, bindFieldValidationArray(r.dom, f, rules, report))
  /\ \A f \in Fields, eob \in BOOLEAN, required \in BOOLEAN :
        /\ \A v \in SSNValues :
              LET r == handleSSNField(DOM, f, v, eob)
              IN SameAgain(r, handleSSNField(r.dom, f, v, eob))
        /\ \A v \in ZipValues :
              LET r == handleZipField(DOM, f, v, eob, required)
              IN SameAgain(r, handleZipField(r.dom, f, v, eob, required))
        /\ \A v \in PhoneValues :
              LET r == handlePhoneField(DOM, f, v, eob, required)
              IN SameAgain(r, handlePhoneField(r.dom, f, v, eob, required))
        /\ \A v \in EmailValues :
              LET r == handleEmailField(DOM, f, v, eob)
              IN SameAgain(r, handleEmailField(r.dom, f, v, eob))
        /\ \A v \in RequiredValues :
              LET r == handleRequiredField(DOM, f, v)
              IN SameAgain(r, handleRequiredField(r.dom, f, v))
        /\ \A v \in RequiredValues, others \in GroupValues :
              LET r == handleRequiredOneForAllField(DOM, f, v, others)
              IN SameAgain(r, handleRequiredOneForAllField(r.dom, f, v,
                                                           others))
        /\ \A v \in ZipValues, others \in GroupValues :
              LET r == handleZipAllForOneField(DOM, f, v, others)
              IN SameAgain(r, handleZipAllForOneField(r.dom, f, v, others))

\* C11 witness: setErrorState has been called on a field that was in error
\* already and whose wrapper has the wrapper of another field in error as a
\* sibling, so that a message node existed before the call and the repeated
\* call finds it again.
C11_Witness ==
  /\ lastOp.op = "setErrorState"
  /\ lastOp.preErr
  /\ Len(MessageNodes(lastOp.field)) = 1
  /\ MessageDisplayed(lastOp.field, lastOp.msg)
  /\ \E g \in Fields :
        /\ g # lastOp.field
        /\ inputErr[g]
        /\ container[g] = container[lastOp.field]

\* C12: after handleZipField on a blank value with error_on_blank false:
\* with required false the call has returned true and the field shows no
\* error; with required true the call has returned false and the field is
\* in error with the message "This field is required", the format rules
\* having passed and the Required rule having failed.
C12_BlankZip ==
  ( /\ lastOp.op = "handleZipField"
    /\ lastOp.args.blank
    /\ ~lastOp.args.eob )
    => /\ ~lastOp.args.required
            => (lastOp.ret = TRUE /\ AlreadyClear(lastOp.field))
       /\ lastOp.args.required
            => /\ lastOp.ret = FALSE
               /\ inputErr[lastOp.field]
               /\ MessageDisplayed(lastOp.field, "This field is required")
               /\ lastOp.args.format
               /\ ~lastOp.pass

\* C12 without the return value of the call with required false: the
\* effects on the page are as the claim says.
C12_BlankZipEffects ==
  ( /\ lastOp.op = "handleZipField"
    /\ lastOp.args.blank
    /\ ~lastOp.args.eob )
    => /\ ~lastOp.args.required => AlreadyClear(lastOp.field)
       /\ lastOp.args.required
            => /\ lastOp.ret = FALSE
               /\ inputErr[lastOp.field]
               /\ MessageDisplayed(lastOp.field, "This field is required")
               /\ lastOp.args.format
               /\ ~lastOp.pass

\* The format rules of the composites that take error_on_blank.
BlankTolerant ==
  {"ssnValid", "phoneValid", "emailValid", "fieldsMatch", "ZipRules",
   "CompanyIdRules", "SecurityRules"}

\* C13: the format rules of every composite that takes error_on_blank (SSN,
\* phone, email, zip, company-id, security, confirm-field), applied to the
\* empty value with error_on_blank false, have returned true without
\* raising, whatever the second field holds; the Required rule
\* fieldNotEmpty applied to the empty value has returned false.
C13_BlankTolerance ==
  /\ (pred.fn \in BlankTolerant /\ pred.value = Blank /\ ~pred.eob)
       => (pred.result = TRUE /\ ~pred.raises)
  /\ (pred.fn = "fieldNotEmpty" /\ pred.value = Blank)
       => pred.result = FALSE

\* C13 witness: the rule list of the security validator was applied to the
\* empty value with error_on_blank false while the linked field holds a
\* value.
C13_Witness ==
  /\ pred.fn = "SecurityRules"
  /\ pred.value = Blank
  /\ ~pred.eob
  /\ pred.other # Blank
  /\ pred.result = TRUE

\* The string u occurs in the string p at some position.
Occurs(u, p) ==
  \E i \in 1..Len(p) :
     /\ i + Len(u) - 1 <= Len(p)
     /\ \A j \in 1..Len(u) : p[i + j - 1] = u[j]

\* C14: the rule list of validatePasswordField passes if and only if the
\* password has 8 to 128 characters, has an upper case letter, a lower case
\* letter and a digit, and the user id, when not empty, does not occur in
\* the password; so it passes when the user id contains the password
\* without occurring in it, and fails without an upper case letter whatever
\* the user id is.
C14_PasswordRules ==
  pred.fn = "PasswordRules"
    => LET password == pred.value
           user_id == pred.other
       IN /\ pred.result
               <=> /\ Len(password) >= 8
                   /\ Len(password) <= 128
                   /\ \E i \in 1..Len(password) : password[i] \in UpperCase
                   /\ \E i \in 1..Len(password) : password[i] \in LowerCase
                   /\ \E i \in 1..Len(password) : password[i] \in Digits
                   /\ ~ (user_id # Blank /\ Occurs(user_id, password))
          /\ (\A i \in 1..Len(password) : password[i] \notin UpperCase)
               => ~pred.result

\* C14 witness: a password that satisfies the other rules was validated
\* against a user id that contains it, and passed.
C14_Witness ==
  /\ pred.fn = "PasswordRules"
  /\ pred.value = Password
  /\ Len(pred.other) > Len(pred.value)
  /\ Occurs(pred.value, pred.other)
  /\ pred.result = TRUE

\* The digits of a string.
DigitsOf(value) == {value[i] : i \in 1..Len(value)} \cap Digits

\* C15: phoneValid applied to a value of the 3-3-4 digit format, with or
\* without each dash, has returned false if all digits of the value are the
\* same digit and true if the value has two distinct digits or more.
C15_PhoneSameDigit ==
  (pred.fn = "phoneValid" /\ DashedDigits(pred.value, 3, 3, 4))
    => /\ ~pred.raises
       /\ Cardinality(DigitsOf(pred.value)) = 1 => pred.result = FALSE
       /\ Cardinality(DigitsOf(pred.value)) >= 2 => pred.result = TRUE

\* C15 witness: phoneValid was applied to 111-111-1111 and returned false.
C15_Witness ==
  /\ pred.fn = "phoneValid"
  /\ pred.value = PhoneNumber("1", "1", "1", TRUE, TRUE)
  /\ DashedDigits(pred.value, 3, 3, 4)
  /\ pred.result = FALSE

\* C16: after bindFieldValidationArray called with report_error_message
\* false: if a rule failed, the call has returned false, the field carries
\* the error class, the form indicator is set and no message text is
\* displayed for the field; if every rule passed, the call has returned
\* true and the field is cleared.
C16_NoMessagePolicy ==
  (lastOp.op = "bindFieldValidationArray" /\ lastOp.report = "false")
    => /\ ~lastOp.pass
            => /\ lastOp.ret = FALSE
               /\ inputErr[lastOp.field]
               /\ formErr
               /\ MessageCleared(lastOp.field)
       /\ lastOp.pass => (lastOp.ret = TRUE /\ FieldCleared)

\* C16 witness: bindFieldValidationArray was called with false and a
\* failing rule on a field that was in error, so that a message node
\* existed before the call.
C16_Witness ==
  /\ lastOp.op = "bindFieldValidationArray"
  /\ lastOp.report = "false"
  /\ ~lastOp.pass
  /\ lastOp.preErr
  /\ Len(MessageNodes(lastOp.field)) >= 1
  /\ inputErr[lastOp.field]

\* The functions of layer 5 the rules are built from.
Predicates ==
  {"lengthValid", "fieldNotEmpty", "ssnValid", "emailValid", "phoneValid",
   "doesNotContainValue", "containsOnlyNumeric", "containsOnlyAlphaNumeric",
   "containsLowerAndUppercase", "containsNumber"}

\* C17: every function of layer 5, applied to any string and any
\* error_on_blank flag, has returned a boolean and has not raised.
C17_PredicatesTotal ==
  pred.fn \in Predicates => (~pred.raises /\ pred.result \in BOOLEAN)

FormatMessage ==
  [handleZipField |-> "Incorrect Format",
   handleZipAllForOneField |-> "Incorrect Format",
   handlePhoneField |-> "Incorrect Format",
   handleEmailField |-> "Incorrect Format"]

\* C19: after a handler that appends a Required rule after a format rule
\* (handleZipField and handlePhoneField with required true,
\* handleEmailField, handleZipAllForOneField), called on any value with any
\* error_on_blank flag, if the format rule failed then the message
\* displayed for the field is the message of the format rule.
C19_FormatMessageKept ==
  ( /\ lastOp.op \in DOMAIN FormatMessage
    /\ lastOp.args.required
    /\ ~lastOp.args.format )
    => MessageDisplayed(lastOp.field, FormatMessage[lastOp.op])

C21_OtherFieldsUntouched ==
  [][lastOp'.op \in {"setErrorState", "recoverErrorState"}
       => \A g \in Fields \ {lastOp'.field} :
             /\ inputErr'[g] = inputErr[g]
             /\ labelErr'[g] = labelErr[g]
             /\ \A i \in 1..Len(msgs[container[g]]) :
                   msgs[container[g]][i].owner = g
                     => /\ i <= Len(msgs'[container[g]])
                        /\ msgs'[container[g]][i] = msgs[container[g]][i]]_vars

C22_HandlerOnClearedField ==
  ( /\ run.stage = "returned"
    /\ run.op \in {"handleSSNField", "handleZipField", "handlePhoneField",
                    "handleEmailField"}
    /\ ~run.eob
    /\ run.op = "handleZipField" => run.required
    /\ run.op = "handlePhoneField" => ~run.required
    /\ ~run.start.inputErr[run.field] )
    => (inputErr[run.field] <=> ~AllPass(run.results))

=============================================================================
